---- MODULE Spec2Model ----
(***************************************************************************)
(* State machine of mpt.trie_diff: StateDiff.from_tries drives the         *)
(* recursive two-trie walker _compute_diff over a node store, with the     *)
(* account leaf handler re-entering the walker on the two storage roots.   *)
(* The Python call stack is the variable `stack` (top = head); a frame of  *)
(* _compute_diff that sits in a `for i in range(0, 16)` loop keeps its     *)
(* locals and its loop index.                                              *)
(***************************************************************************)
EXTENDS Integers, Sequences, FiniteSets, TLC

VARIABLES tries, _nodes, _address_preimages, _storage_key_preimages,
          _main_trie, _storage_tries, stack, pc, err,
          lookups, missed, checked, calls, dispatched

vars == <<tries, _nodes, _address_preimages, _storage_key_preimages,
          _main_trie, _storage_tries, stack, pc, err,
          lookups, missed, checked, calls, dispatched>>

----------------------------------------------------------------------------
(* Bounds *)

\* width of a trie key in bytes (32 in Ethereum; both tries use the same)
KeyBytes == 2
\* largest number of keys present in one input trie
MaxKeys == 2

KeyNibbles == 2 * KeyBytes

\* range(0, 16): the slots of a branch node
BranchWidth == 16
Nibbles == 0 .. (BranchWidth - 1)

\* len(node) == 32 in resolve
HashLen == 32

----------------------------------------------------------------------------
(* Python values *)

None == [t |-> "None"]
\* b"": the empty byte string (an empty branch slot)
EmptyBytes == [t |-> "bytes", len |-> 0]
\* a 32-byte hash; keccak is collision free, so the digest stands for the
\* content it was computed from
Hash32(content) == [t |-> "bytes", len |-> HashLen, h |-> content]

LeafNode(rest_of_key, value) ==
    [t |-> "LeafNode", rest_of_key |-> rest_of_key, value |-> value]
ExtensionNode(key_segment, subnode) ==
    [t |-> "ExtensionNode", key_segment |-> key_segment, subnode |-> subnode]
BranchNode(subnodes, value) ==
    [t |-> "BranchNode", subnodes |-> subnodes, value |-> value]

IsInternalNode(x) == x.t \in {"LeafNode", "ExtensionNode", "BranchNode"}
IsHash(x) == x.t = "bytes" /\ x.len = HashLen

\* an int, and the bytes object bytes([i])
PyInt(n) == [ty |-> "int", v |-> n]
PyBytes(s) == [ty |-> "bytes", v |-> s]
\* a == b on ints and bytes objects: values of different types are unequal
PyEqLoose(a, b) ==
    LET av == IF a.ty = "int" THEN <<a.v>> ELSE a.v
        bv == IF b.ty = "int" THEN <<b.v>> ELSE b.v
    IN  av = bv
PyEq(a, b) == a.ty = b.ty /\ a.v = b.v

\* s[n:]
SliceFrom(s, n) == SubSeq(s, n + 1, Len(s))
\* a.startswith(b)
StartsWith(a, b) == Len(b) <= Len(a) /\ SubSeq(a, 1, Len(b)) = b

\* mpt.utils.nibble_list_to_bytes: two nibbles per byte, high nibble first
NibbleListToBytes(n) ==
    [i \in 1 .. (Len(n) \div 2) |-> n[2 * i - 1] * 16 + n[2 * i]]

\* resolve(node, nodes): the node a reference denotes, or None
resolve(node, nodes) ==
    IF node = None \/ node = EmptyBytes THEN None
    ELSE IF IsInternalNode(node) THEN node
    ELSE IF IsHash(node)
         THEN (IF node \in DOMAIN nodes THEN nodes[node] ELSE None)
    ELSE [t |-> "ValueError"]


\* rlp.decode of the encoding of a byte string shorter than 56 bytes
RlpDecode(b) ==
    IF Len(b) = 1 /\ b[1] < 128 THEN b
    ELSE SubSeq(b, 2, 1 + (b[1] - 128))

\* int.from_bytes(b, "big")
RECURSIVE IntFromBytes(_)
IntFromBytes(b) ==
    IF Len(b) = 0 THEN 0
    ELSE 256 * IntFromBytes(SubSeq(b, 1, Len(b) - 1)) + b[Len(b)]

U256(n) == [t |-> "U256", v |-> n]

\* Account.from_rlp: the payload is the list [nonce, balance, storage_root,
\* code_hash]; the account's code is left unset
AccountFromRlp(value) ==
    [t |-> "Account", nonce |-> value.items[1], balance |-> value.items[2],
     code_hash |-> value.items[4], storage_root |-> value.items[3]]

----------------------------------------------------------------------------
(* The transition database handed to from_tries: two tries over one node    *)
(* store, built the way the Merkle Patricia Trie encodes a key/value map.  *)

\* A hash is modelled by what was hashed: the node at `depth` nibbles below
\* its root that encodes `entries`, a set of <<key id, leaf value>>. Equal
\* nodes have equal hashes and different nodes different ones.
Digest(entries, depth) == [depth |-> depth, entries |-> entries]
\* keccak256(rlp(b"")): the root of an empty trie; no node has this hash
EMPTY_TRIE_ROOT == Hash32(Digest({}, 0))
\* keccak256(b""): the code hash of an account without code
EMPTY_CODE_HASH == Hash32([code |-> <<>>])

\* the nibbles that distinguish the keys of the model; a key is a stem
\* followed by zeros up to the key width
Stems == << <<1, 2, 3, 4>>, <<1, 2, 3, 5>>, <<1, 2, 6, 4>>,
            <<8, 2, 3, 4>>, <<8, 2, 3, 5>> >>
KeyIds == 1 .. Len(Stems)
KeyOf(k) == [i \in 1 .. KeyNibbles |->
                IF i <= Len(Stems[k]) THEN Stems[k][i] ELSE 0]
\* the 20-byte address, and the 32-byte storage key, whose hash is key k
AddressOf(k) == [t |-> "Address", id |-> k]
StorageKeyOf(k) == [t |-> "Bytes32", id |-> k]

\* RLP of a storage value (an integer of at most 55 bytes)
RECURSIVE IntToBytes(_)
IntToBytes(n) == IF n = 0 THEN <<>> ELSE Append(IntToBytes(n \div 256), n % 256)
RlpEncodeInt(n) ==
    LET b == IntToBytes(n)
    IN  IF Len(b) = 1 /\ b[1] < 128 THEN b ELSE <<128 + Len(b)>> \o b
StorageLeafValue(n) == [t |-> "rlp", bytes |-> RlpEncodeInt(n)]
AccountLeafValue(nonce, balance, storage_root) ==
    [t |-> "rlp", items |-> <<nonce, balance, storage_root, EMPTY_CODE_HASH>>]

\* the canonical trie node of a non-empty set of entries whose keys agree
\* on their first `depth` nibbles
RECURSIVE BuildNode(_, _)
BuildNode(entries, depth) ==
    LET any == CHOOSE e \in entries : TRUE
        Agree(n) == \A e \in entries :
                       SubSeq(KeyOf(e[1]), depth + 1, depth + n)
                         = SubSeq(KeyOf(any[1]), depth + 1, depth + n)
        shared == CHOOSE n \in 0 .. (KeyNibbles - depth) :
                     /\ Agree(n)
                     /\ \A m \in (n + 1) .. (KeyNibbles - depth) : ~Agree(m)
        Slot(i) == {e \in entries : KeyOf(e[1])[depth + 1] = i}
    IN  IF Cardinality(entries) = 1
        THEN LeafNode(SliceFrom(KeyOf(any[1]), depth), any[2])
        ELSE IF shared > 0
        THEN ExtensionNode(SubSeq(KeyOf(any[1]), depth + 1, depth + shared),
                           Hash32(Digest(entries, depth + shared)))
        ELSE BranchNode([i \in Nibbles |->
                           IF Slot(i) = {} THEN EmptyBytes
                           ELSE Hash32(Digest(Slot(i), depth + 1))],
                        EmptyBytes)

\* the node a hash is the hash of
Preimage(hash) == BuildNode(hash.h.entries, hash.h.depth)

RootOf(entries) == Hash32(Digest(entries, 0))

\* every hash reference inside the trie below a reference (the reference
\* itself included)
RECURSIVE HashesBelow(_)
HashesBelow(ref) ==
    IF ref = EMPTY_TRIE_ROOT \/ ~IsHash(ref) THEN {}
    ELSE LET n == Preimage(ref)
         IN  {ref} \cup
             (IF n.t = "ExtensionNode" THEN HashesBelow(n.subnode)
              ELSE IF n.t = "BranchNode"
                   THEN UNION {HashesBelow(n.subnodes[i]) : i \in Nibbles}
              ELSE {})

\* the payloads of the model: two account records and two slot values
ValIds == {1, 2}
\* the payloads a key can have: only key 1 takes both
ValIdsOf(k) == IF k = 1 THEN ValIds ELSE {1}
SlotValue(v) == IF v = 1 THEN 5 ELSE 200
StorageEntries(m) == {<<e[1], StorageLeafValue(SlotValue(e[2]))>> : e \in m}
\* the storage of account payload v: one slot, whose value differs between
\* the two payloads
FixedStorage(v) == {<<1, v>>}
AccountEntries(m) ==
    {<<e[1],
       AccountLeafValue(0, 10 * e[2], RootOf(StorageEntries(FixedStorage(e[2]))))>>
       : e \in m}
\* one account (key 1) whose storage is the map m
OneAccountEntries(m) ==
    {<<1, AccountLeafValue(0, 10, RootOf(StorageEntries(m)))>>}

\* a key/value map with at most MaxKeys keys, as a set of <<key id, payload>>
Maps == {m \in SUBSET (KeyIds \X ValIds) :
            /\ Cardinality(m) <= MaxKeys
            /\ \A a \in m : a[2] \in ValIdsOf(a[1])
            /\ \A a \in m, b \in m : a[1] = b[1] => a = b}

\* what the two maps stand for: the account trie itself; the storage trie of
\* one account; or the account trie with a witness that lacks the post root
Modes == {"account", "storage", "incomplete"}

StateEntries(mode, m) ==
    IF mode = "storage" THEN OneAccountEntries(m) ELSE AccountEntries(m)
StorageRootsOf(mode, m) ==
    IF mode = "storage" THEN {RootOf(StorageEntries(m))}
    ELSE {RootOf(StorageEntries(FixedStorage(e[2]))) : e \in m}

TransitionDB(mode, pre, post) ==
    LET l_root == RootOf(StateEntries(mode, pre))
        r_root == RootOf(StateEntries(mode, post))
        all == HashesBelow(l_root) \cup HashesBelow(r_root)
               \cup UNION {HashesBelow(r) : r \in StorageRootsOf(mode, pre)
                                               \cup StorageRootsOf(mode, post)}
        kept == IF mode = "incomplete" THEN all \ {r_root} ELSE all
        packed == {NibbleListToBytes(KeyOf(k)) : k \in KeyIds}
        IdOf(p) == CHOOSE k \in KeyIds : NibbleListToBytes(KeyOf(k)) = p
    IN  [nodes |-> [h \in kept |-> Preimage(h)],
         address_preimages |-> [p \in packed |-> AddressOf(IdOf(p))],
         storage_key_preimages |-> [p \in packed |-> StorageKeyOf(IdOf(p))],
         state_root |-> l_root,
         post_state_root |-> r_root]

----------------------------------------------------------------------------
(* Frames of the call stack *)

AccountHandler == [fn |-> "_process_account_diff"]
StorageHandler(address) == [fn |-> "_process_storage_diff", address |-> address]

\* a call of _compute_diff that has not run yet
Call(left, right, path, process_leaf_diff) ==
    [op |-> "_compute_diff", pc |-> "entry", left |-> left, right |-> right,
     path |-> path, process_leaf_diff |-> process_leaf_diff,
     l_node |-> None, r_node |-> None, i |-> 0]
\* the frame of a call that is about to run iteration i of its loop
Loop(f, l_node, r_node, i) ==
    [op |-> "_compute_diff", pc |-> "loop", left |-> f.left, right |-> f.right,
     path |-> f.path, process_leaf_diff |-> f.process_leaf_diff,
     l_node |-> l_node, r_node |-> r_node, i |-> i]
\* a call process_leaf_diff(path=path, left=left, right=right)
LeafCall(f, path, left, right) ==
    [op |-> "process_leaf_diff", process_leaf_diff |-> f.process_leaf_diff,
     path |-> path, left |-> left, right |-> right, at |-> f.path]

\* what running a piece of code does to the frame on top of the stack: it
\* raises, or it is replaced by the frames in `push` (first one runs first)
Ok(push, nodes) ==
    [err |-> "", push |-> push, nodes |-> nodes, checked |-> {}, note |-> {}]
Raise(kind, nodes) ==
    [err |-> kind, push |-> <<>>, nodes |-> nodes, checked |-> {}, note |-> {}]
\* the same outcome, with the kind of node check_branch_node was given
Checked(out, node) == [out EXCEPT !.checked = @ \cup {node.t}]
\* the same outcome, with a record of the dispatch that produced it: the
\* walk, the case, and the paths the two sides continue on
Noted(out, f, case, l_path, r_path) ==
    [out EXCEPT !.note = @ \cup {[walk |-> f.process_leaf_diff, case |-> case,
                                  l_path |-> l_path, r_path |-> r_path]}]

\* mpt.utils.check_branch_node: the node must be a branch whose value is empty
check_branch_node(node) == node.t = "BranchNode" /\ node.value = EmptyBytes


----------------------------------------------------------------------------
(* _compute_diff: the body of each case of `match (l_node, r_node)`, as a   *)
(* function of the frame f, the two resolved nodes and the node store      *)

\* the frame after iteration f.i of a `for i in range(0, 16)` loop
NextIteration(f, l_node, r_node) ==
    IF f.i + 1 < BranchWidth THEN <<Loop(f, l_node, r_node, f.i + 1)>> ELSE <<>>

\* check_branch_node(node) followed by the loop
CheckThenLoop(f, case, checked_node, l_node, r_node, nodes) ==
    IF check_branch_node(checked_node)
    THEN Noted(Checked(Ok(<<Loop(f, l_node, r_node, 0)>>, nodes), checked_node),
               f, case, f.path, f.path)
    ELSE Checked(Raise("check_branch_node", nodes), checked_node)

NoneNone(f, l_node, r_node, nodes) == Ok(<<>>, nodes)

NoneLeaf(f, l_node, r_node, nodes) ==
    LET full_path == NibbleListToBytes(f.path \o r_node.rest_of_key)
    IN  Ok(<<LeafCall(f, full_path, None, r_node)>>, nodes)

NoneExtension(f, l_node, r_node, nodes) ==
    Ok(<<Call(None, r_node.subnode, f.path \o r_node.key_segment,
              f.process_leaf_diff)>>, nodes)

NoneBranch(f, l_node, r_node, nodes) ==
    IF f.pc = "entry" THEN CheckThenLoop(f, "NoneBranch", r_node, l_node, r_node, nodes)
    ELSE Ok(<<Call(None, r_node.subnodes[f.i], Append(f.path, f.i),
                   f.process_leaf_diff)>>
            \o NextIteration(f, l_node, r_node), nodes)

LeafNone(f, l_node, r_node, nodes) ==
    LET full_path == NibbleListToBytes(f.path \o l_node.rest_of_key)
    IN  Ok(<<LeafCall(f, full_path, l_node, None)>>, nodes)

\* the case without its test for equal keys: always a deletion and a creation
LeafLeafAlwaysSplit(f, l_node, r_node, nodes) ==
    Ok(<<LeafCall(f, NibbleListToBytes(f.path \o l_node.rest_of_key), l_node, None),
         LeafCall(f, NibbleListToBytes(f.path \o r_node.rest_of_key), None, r_node)>>,
       nodes)

LeafLeaf(f, l_node, r_node, nodes) ==
    IF l_node.rest_of_key = r_node.rest_of_key
    THEN IF l_node.value # r_node.value
         THEN Ok(<<LeafCall(f, NibbleListToBytes(f.path \o l_node.rest_of_key),
                            l_node, r_node)>>, nodes)
         ELSE Ok(<<>>, nodes)
    ELSE LET path_left == NibbleListToBytes(f.path \o l_node.rest_of_key)
             path_right == NibbleListToBytes(f.path \o r_node.rest_of_key)
         IN  Noted(Ok(<<LeafCall(f, path_left, l_node, None),
                        LeafCall(f, path_right, None, r_node)>>, nodes),
                   f, "LeafLeaf", f.path \o l_node.rest_of_key,
                   f.path \o r_node.rest_of_key)

LeafExtension(f, l_node, r_node, nodes) ==
    IF StartsWith(l_node.rest_of_key, r_node.key_segment)
    THEN Ok(<<Call(LeafNode(SliceFrom(l_node.rest_of_key, Len(r_node.key_segment)),
                            l_node.value),
                   r_node.subnode, f.path \o r_node.key_segment,
                   f.process_leaf_diff)>>, nodes)
    ELSE LET path_left == NibbleListToBytes(f.path \o l_node.rest_of_key)
         IN  Noted(Ok(<<LeafCall(f, path_left, l_node, None),
                        Call(None, r_node.subnode, f.path \o r_node.key_segment,
                             f.process_leaf_diff)>>, nodes),
                   f, "LeafExtension", f.path \o l_node.rest_of_key,
                   f.path \o r_node.key_segment)

\* the case with the leaf handed down whole instead of shortened by a nibble
LeafBranchUnshortened(f, l_node, r_node, nodes) ==
    IF f.pc = "entry" THEN CheckThenLoop(f, "LeafBranch", r_node, l_node, r_node, nodes)
    ELSE IF Len(l_node.rest_of_key) = 0 THEN Raise("IndexError", nodes)
    ELSE Ok(<<Call(IF PyEq(PyInt(f.i), PyInt(l_node.rest_of_key[1]))
                   THEN l_node ELSE None,
                   r_node.subnodes[f.i], Append(f.path, f.i),
                   f.process_leaf_diff)>>
            \o NextIteration(f, l_node, r_node), nodes)

LeafBranch(f, l_node, r_node, nodes) ==
    IF f.pc = "entry" THEN CheckThenLoop(f, "LeafBranch", r_node, l_node, r_node, nodes)
    ELSE IF Len(l_node.rest_of_key) = 0 THEN Raise("IndexError", nodes)
    ELSE IF ~PyEq(PyInt(f.i), PyInt(l_node.rest_of_key[1]))
    THEN Ok(<<Call(None, r_node.subnodes[f.i], Append(f.path, f.i),
                   f.process_leaf_diff)>>
            \o NextIteration(f, l_node, r_node), nodes)
    ELSE LET shortened_l_node ==
                 LeafNode(SliceFrom(l_node.rest_of_key, 1), l_node.value)
         IN  Ok(<<Call(shortened_l_node, r_node.subnodes[f.i],
                       Append(f.path, f.i), f.process_leaf_diff)>>
                \o NextIteration(f, l_node, r_node), nodes)

ExtensionNone(f, l_node, r_node, nodes) ==
    Ok(<<Call(l_node.subnode, None, f.path \o l_node.key_segment,
              f.process_leaf_diff)>>, nodes)

ExtensionLeaf(f, l_node, r_node, nodes) ==
    IF StartsWith(r_node.rest_of_key, l_node.key_segment)
    THEN Ok(<<Call(l_node.subnode,
                   LeafNode(SliceFrom(r_node.rest_of_key, Len(l_node.key_segment)),
                            r_node.value),
                   f.path \o l_node.key_segment, f.process_leaf_diff)>>, nodes)
    ELSE LET path_right == NibbleListToBytes(f.path \o r_node.rest_of_key)
         IN  Noted(Ok(<<LeafCall(f, path_right, None, r_node),
                        Call(l_node.subnode, None, f.path \o l_node.key_segment,
                             f.process_leaf_diff)>>, nodes),
                   f, "ExtensionLeaf", f.path \o l_node.key_segment,
                   f.path \o r_node.rest_of_key)

\* the case with its last branch walking the right subtree first
ExtensionExtensionRightFirst(f, l_node, r_node, nodes) ==
    IF \/ StartsWith(l_node.key_segment, r_node.key_segment)
       \/ StartsWith(r_node.key_segment, l_node.key_segment)
    THEN Ok(<<Call(IF Len(l_node.key_segment) > Len(r_node.key_segment)
                   THEN ExtensionNode(SliceFrom(l_node.key_segment,
                                                Len(r_node.key_segment)),
                                      l_node.subnode)
                   ELSE l_node.subnode,
                   IF Len(r_node.key_segment) > Len(l_node.key_segment)
                   THEN ExtensionNode(SliceFrom(r_node.key_segment,
                                                Len(l_node.key_segment)),
                                      r_node.subnode)
                   ELSE r_node.subnode,
                   IF Len(l_node.key_segment) > Len(r_node.key_segment)
                   THEN f.path \o r_node.key_segment
                   ELSE f.path \o l_node.key_segment,
                   f.process_leaf_diff)>>, nodes)
    ELSE Noted(Ok(<<Call(None, r_node.subnode, f.path \o r_node.key_segment,
                         f.process_leaf_diff),
                    Call(l_node.subnode, None, f.path \o l_node.key_segment,
                         f.process_leaf_diff)>>, nodes),
               f, "ExtensionExtension", f.path \o l_node.key_segment,
               f.path \o r_node.key_segment)

ExtensionExtension(f, l_node, r_node, nodes) ==
    IF l_node.key_segment = r_node.key_segment
    THEN Ok(<<Call(l_node.subnode, r_node.subnode,
                   f.path \o l_node.key_segment, f.process_leaf_diff)>>, nodes)
    ELSE IF StartsWith(l_node.key_segment, r_node.key_segment)
    THEN LET l_node_shortened ==
                 ExtensionNode(SliceFrom(l_node.key_segment, Len(r_node.key_segment)),
                               l_node.subnode)
         IN  Ok(<<Call(l_node_shortened, r_node.subnode,
                       f.path \o r_node.key_segment, f.process_leaf_diff)>>, nodes)
    ELSE IF StartsWith(r_node.key_segment, l_node.key_segment)
    THEN LET r_node_shortened ==
                 ExtensionNode(SliceFrom(r_node.key_segment, Len(l_node.key_segment)),
                               r_node.subnode)
         IN  Ok(<<Call(l_node.subnode, r_node_shortened,
                       f.path \o l_node.key_segment, f.process_leaf_diff)>>, nodes)
    ELSE Noted(Ok(<<Call(l_node.subnode, None, f.path \o l_node.key_segment,
                         f.process_leaf_diff),
                    Call(None, r_node.subnode, f.path \o r_node.key_segment,
                         f.process_leaf_diff)>>, nodes),
               f, "ExtensionExtension", f.path \o l_node.key_segment,
               f.path \o r_node.key_segment)

ExtensionBranch(f, l_node, r_node, nodes) ==
    IF f.pc = "entry" THEN CheckThenLoop(f, "ExtensionBranch", r_node, l_node, r_node, nodes)
    ELSE LET nibble == PyBytes(<<f.i>>)
         IN  IF Len(l_node.key_segment) = 0 THEN Raise("IndexError", nodes)
             ELSE IF PyEq(PyInt(l_node.key_segment[1]), nibble)
             THEN LET l_node_to_compare ==
                          IF Len(l_node.key_segment) = 1 THEN l_node.subnode
                          ELSE ExtensionNode(SliceFrom(l_node.key_segment, 1),
                                             l_node.subnode)
                  IN  Ok(<<Call(l_node_to_compare, r_node.subnodes[f.i],
                                Append(f.path, f.i), f.process_leaf_diff)>>
                         \o NextIteration(f, l_node, r_node), nodes)
             ELSE Ok(<<Call(None, r_node.subnodes[f.i], Append(f.path, f.i),
                            f.process_leaf_diff)>>
                     \o NextIteration(f, l_node, r_node), nodes)

BranchNone(f, l_node, r_node, nodes) ==
    IF f.pc = "entry" THEN CheckThenLoop(f, "BranchNone", l_node, l_node, r_node, nodes)
    ELSE Ok(<<Call(l_node.subnodes[f.i], None, Append(f.path, f.i),
                   f.process_leaf_diff)>>
            \o NextIteration(f, l_node, r_node), nodes)

BranchLeaf(f, l_node, r_node, nodes) ==
    IF f.pc = "entry" THEN CheckThenLoop(f, "BranchLeaf", r_node, l_node, r_node, nodes)
    ELSE IF Len(r_node.rest_of_key) = 0 THEN Raise("IndexError", nodes)
    ELSE IF ~PyEq(PyInt(f.i), PyInt(r_node.rest_of_key[1]))
    THEN Ok(<<Call(l_node.subnodes[f.i], None, Append(f.path, f.i),
                   f.process_leaf_diff)>>
            \o NextIteration(f, l_node, r_node), nodes)
    ELSE LET shortened_r_node ==
                 LeafNode(SliceFrom(r_node.rest_of_key, 1), r_node.value)
         IN  Ok(<<Call(l_node.subnodes[f.i], shortened_r_node,
                       Append(f.path, f.i), f.process_leaf_diff)>>
                \o NextIteration(f, l_node, r_node), nodes)

\* the case with the branch validated and the nibble compared as an int,
\* the assignment to r_node.key_segment kept
BranchExtensionAssigning(f, l_node, r_node, nodes) ==
    IF f.pc = "entry"
    THEN CheckThenLoop(f, "BranchExtension", l_node, l_node, r_node, nodes)
    ELSE IF Len(r_node.key_segment) = 0 THEN Raise("IndexError", nodes)
    ELSE IF PyEq(PyInt(r_node.key_segment[1]), PyInt(f.i))
    THEN LET assigned == ExtensionNode(SliceFrom(r_node.key_segment, 1),
                                       r_node.subnode)
             written == IF IsHash(f.right) /\ f.right \in DOMAIN nodes
                        THEN [nodes EXCEPT ![f.right] = assigned]
                        ELSE nodes
         IN  Ok(<<Call(l_node.subnodes[f.i], r_node.subnode,
                       Append(f.path, f.i), f.process_leaf_diff)>>
                \o NextIteration(f, l_node, assigned), written)
    ELSE Ok(<<Call(l_node.subnodes[f.i], None, Append(f.path, f.i),
                   f.process_leaf_diff)>>
            \o NextIteration(f, l_node, r_node), nodes)

\* the one case that assigns to a field of a node: r_node is the object the
\* store holds when `right` was a hash, so the store sees the assignment
BranchExtension(f, l_node, r_node, nodes) ==
    IF f.pc = "entry" THEN CheckThenLoop(f, "BranchExtension", r_node, l_node, r_node, nodes)
    ELSE LET nibble == PyBytes(<<f.i>>)
         IN  IF Len(r_node.key_segment) = 0 THEN Raise("IndexError", nodes)
             ELSE IF PyEq(PyInt(r_node.key_segment[1]), nibble)
             THEN LET assigned == ExtensionNode(SliceFrom(r_node.key_segment, 1),
                                                r_node.subnode)
                      written == IF IsHash(f.right) /\ f.right \in DOMAIN nodes
                                 THEN [nodes EXCEPT ![f.right] = assigned]
                                 ELSE nodes
                  IN  Ok(<<Call(l_node.subnodes[f.i], r_node.subnode,
                                Append(f.path, f.i), f.process_leaf_diff)>>
                         \o NextIteration(f, l_node, assigned), written)
             ELSE Ok(<<Call(l_node.subnodes[f.i], None, Append(f.path, f.i),
                            f.process_leaf_diff)>>
                     \o NextIteration(f, l_node, r_node), nodes)

BranchBranch(f, l_node, r_node, nodes) ==
    IF f.pc = "entry"
    THEN IF check_branch_node(l_node)
         THEN Checked(CheckThenLoop(f, "BranchBranch", r_node, l_node, r_node, nodes), l_node)
         ELSE Checked(Raise("check_branch_node", nodes), l_node)
    ELSE Ok(<<Call(l_node.subnodes[f.i], r_node.subnodes[f.i],
                   Append(f.path, f.i), f.process_leaf_diff)>>
            \o NextIteration(f, l_node, r_node), nodes)


----------------------------------------------------------------------------
(* The accumulator *)

\* d[k] = v on a dict
Put(d, k, v) == [x \in DOMAIN d \cup {k} |-> IF x = k THEN v ELSE d[x]]

\* the assignment left out
RecordAccountSkipped(main_trie, address, left_account, right_account) == main_trie

\* self._main_trie[address] = (left_account, right_account)
RecordAccount(main_trie, address, left_account, right_account) ==
    Put(main_trie, address, <<left_account, right_account>>)

\* self._storage_tries[address][key] = (left_decoded, right_decoded), the
\* inner dict being created on the first write
RecordSlot(storage_tries, address, key, left_decoded, right_decoded) ==
    LET inner == IF address \in DOMAIN storage_tries
                 THEN storage_tries[address] ELSE <<>>
    IN  Put(storage_tries, address, Put(inner, key, <<left_decoded, right_decoded>>))

\* U256(int.from_bytes(rlp.decode(leaf.value), "big")) if leaf else None
DecodeSlot(leaf) ==
    IF leaf = None THEN None
    ELSE U256(IntFromBytes(RlpDecode(leaf.value.bytes)))

\* None if leaf is None else Account.from_rlp(leaf.value)
DecodeAccount(leaf) == IF leaf = None THEN None ELSE AccountFromRlp(leaf.value)

\* None if account is None else account.storage_root
StorageRoot(account) == IF account = None THEN None ELSE account.storage_root

----------------------------------------------------------------------------
(* Actions *)

Top == Head(stack)

\* left is right: only None is the same object on both sides
RefIs(left, right) == left.t = "None" /\ right.t = "None"
\* left == right
RefEq(left, right) == left.t = right.t /\ left = right

\* l_node and r_node of the running call: resolved on entry, kept in the
\* frame afterwards
LNode == IF Top.pc = "entry" THEN resolve(Top.left, _nodes) ELSE Top.l_node
RNode == IF Top.pc = "entry" THEN resolve(Top.right, _nodes) ELSE Top.r_node

\* the references of the running call that nodes.get is asked for
Fetched == IF Top.pc = "entry" THEN {r \in {Top.left, Top.right} : IsHash(r)}
           ELSE {}
FetchCount ==
    IF Top.pc = "entry"
    THEN (IF IsHash(Top.left) THEN 1 ELSE 0) + (IF IsHash(Top.right) THEN 1 ELSE 0)
    ELSE 0

Running == pc = "walk" /\ stack # <<>>

\* the running call is past the `left == right` test and matches the case
InCase(lt, rt) ==
    /\ Running
    /\ Top.op = "_compute_diff"
    /\ IF Top.pc = "entry" THEN ~RefEq(Top.left, Top.right) ELSE TRUE
    /\ LNode.t = lt
    /\ RNode.t = rt

\* the effect of one piece of _compute_diff on the state
Step(out) ==
    /\ _nodes' = out.nodes
    /\ checked' = checked \cup out.checked
    /\ dispatched' = dispatched \cup out.note
    /\ lookups' = lookups + FetchCount
    /\ missed' = missed \cup {r \in Fetched : r \notin DOMAIN _nodes}
    /\ IF out.err # ""
       THEN /\ pc' = "error"
            /\ err' = out.err
            /\ stack' = <<>>
       ELSE /\ stack' = out.push \o Tail(stack)
            /\ UNCHANGED <<pc, err>>
    /\ UNCHANGED <<tries, _address_preimages, _storage_key_preimages,
                   _main_trie, _storage_tries, calls>>

\* from_tries: the walk starts at the two state roots with an empty path
FromTries ==
    /\ pc = "from_tries"
    /\ pc' = "walk"
    /\ stack' = <<Call(tries.state_root, tries.post_state_root, <<>>,
                       AccountHandler)>>
    /\ UNCHANGED <<tries, _nodes, _address_preimages, _storage_key_preimages,
                   _main_trie, _storage_tries, err, lookups, missed, checked,
                   calls, dispatched>>

\* from_tries returns the accumulator
Return ==
    /\ pc = "walk"
    /\ stack = <<>>
    /\ pc' = "done"
    /\ UNCHANGED <<tries, _nodes, _address_preimages, _storage_key_preimages,
                   _main_trie, _storage_tries, stack, err, lookups, missed,
                   checked, calls, dispatched>>

\* if left == right: return
FastPath ==
    /\ Running
    /\ Top.op = "_compute_diff"
    /\ Top.pc = "entry"
    /\ RefEq(Top.left, Top.right)
    /\ stack' = Tail(stack)
    /\ UNCHANGED <<tries, _nodes, _address_preimages, _storage_key_preimages,
                   _main_trie, _storage_tries, pc, err, lookups, missed,
                   checked, calls, dispatched>>

Case_None_None == InCase("None", "None") /\ Step(NoneNone(Top, LNode, RNode, _nodes))
Case_None_Leaf == InCase("None", "LeafNode") /\ Step(NoneLeaf(Top, LNode, RNode, _nodes))
Case_None_Extension ==
    InCase("None", "ExtensionNode") /\ Step(NoneExtension(Top, LNode, RNode, _nodes))
Case_None_Branch ==
    InCase("None", "BranchNode") /\ Step(NoneBranch(Top, LNode, RNode, _nodes))
Case_Leaf_None == InCase("LeafNode", "None") /\ Step(LeafNone(Top, LNode, RNode, _nodes))
Case_Leaf_Leaf ==
    InCase("LeafNode", "LeafNode") /\ Step(LeafLeaf(Top, LNode, RNode, _nodes))
Case_Leaf_Extension ==
    InCase("LeafNode", "ExtensionNode") /\ Step(LeafExtension(Top, LNode, RNode, _nodes))
Case_Leaf_Branch ==
    InCase("LeafNode", "BranchNode") /\ Step(LeafBranch(Top, LNode, RNode, _nodes))
Case_Extension_None ==
    InCase("ExtensionNode", "None") /\ Step(ExtensionNone(Top, LNode, RNode, _nodes))
Case_Extension_Leaf ==
    InCase("ExtensionNode", "LeafNode") /\ Step(ExtensionLeaf(Top, LNode, RNode, _nodes))
Case_Extension_Extension ==
    /\ InCase("ExtensionNode", "ExtensionNode")
    /\ Step(ExtensionExtension(Top, LNode, RNode, _nodes))
Case_Extension_Branch ==
    InCase("ExtensionNode", "BranchNode") /\ Step(ExtensionBranch(Top, LNode, RNode, _nodes))
Case_Branch_None ==
    InCase("BranchNode", "None") /\ Step(BranchNone(Top, LNode, RNode, _nodes))
Case_Branch_Leaf ==
    InCase("BranchNode", "LeafNode") /\ Step(BranchLeaf(Top, LNode, RNode, _nodes))
Case_Branch_Extension ==
    InCase("BranchNode", "ExtensionNode") /\ Step(BranchExtension(Top, LNode, RNode, _nodes))
Case_Branch_Branch ==
    InCase("BranchNode", "BranchNode") /\ Step(BranchBranch(Top, LNode, RNode, _nodes))

\* what a leaf handler invocation is remembered by
Invocation(f) ==
    [walk |-> f.process_leaf_diff, path |-> f.path, left |-> f.left,
     right |-> f.right, at |-> f.at]

\* _process_account_diff
ProcessAccountDiff ==
    /\ Running
    /\ Top.op = "process_leaf_diff"
    /\ Top.process_leaf_diff.fn = "_process_account_diff"
    /\ calls' = Append(calls, Invocation(Top))
    /\ IF Top.path \notin DOMAIN _address_preimages
       THEN /\ pc' = "error"
            /\ err' = "KeyError"
            /\ stack' = <<>>
            /\ UNCHANGED _main_trie
       ELSE LET address == _address_preimages[Top.path]
                left_account == DecodeAccount(Top.left)
                right_account == DecodeAccount(Top.right)
            IN  /\ _main_trie' = RecordAccount(_main_trie, address,
                                               left_account, right_account)
                /\ stack' = <<Call(StorageRoot(left_account),
                                   StorageRoot(right_account), <<>>,
                                   StorageHandler(address))>> \o Tail(stack)
                /\ UNCHANGED <<pc, err>>
    /\ UNCHANGED <<tries, _nodes, _address_preimages, _storage_key_preimages,
                   _storage_tries, lookups, missed, checked, dispatched>>

\* _process_storage_diff, bound to an address
ProcessStorageDiff ==
    /\ Running
    /\ Top.op = "process_leaf_diff"
    /\ Top.process_leaf_diff.fn = "_process_storage_diff"
    /\ calls' = Append(calls, Invocation(Top))
    /\ IF Top.path \notin DOMAIN _storage_key_preimages
       THEN /\ pc' = "error"
            /\ err' = "KeyError"
            /\ stack' = <<>>
            /\ UNCHANGED _storage_tries
       ELSE LET key == _storage_key_preimages[Top.path]
            IN  /\ _storage_tries' =
                       RecordSlot(_storage_tries, Top.process_leaf_diff.address,
                                  key, DecodeSlot(Top.left), DecodeSlot(Top.right))
                /\ stack' = Tail(stack)
                /\ UNCHANGED <<pc, err>>
    /\ UNCHANGED <<tries, _nodes, _address_preimages, _storage_key_preimages,
                   _main_trie, lookups, missed, checked, dispatched>>

Init ==
    \E mode \in Modes, pre \in Maps, post \in Maps :
        /\ tries = TransitionDB(mode, pre, post)
        /\ _nodes = tries.nodes
        /\ _address_preimages = tries.address_preimages
        /\ _storage_key_preimages = tries.storage_key_preimages
        /\ _main_trie = <<>>
        /\ _storage_tries = <<>>
        /\ stack = <<>>
        /\ pc = "from_tries"
        /\ err = ""
        /\ lookups = 0
        /\ missed = {}
        /\ checked = {}
        /\ calls = <<>>
        /\ dispatched = {}

Next ==
    \/ FromTries
    \/ Return
    \/ FastPath
    \/ Case_None_None
    \/ Case_None_Leaf
    \/ Case_None_Extension
    \/ Case_None_Branch
    \/ Case_Leaf_None
    \/ Case_Leaf_Leaf
    \/ Case_Leaf_Extension
    \/ Case_Leaf_Branch
    \/ Case_Extension_None
    \/ Case_Extension_Leaf
    \/ Case_Extension_Extension
    \/ Case_Extension_Branch
    \/ Case_Branch_None
    \/ Case_Branch_Leaf
    \/ Case_Branch_Extension
    \/ Case_Branch_Branch
    \/ ProcessAccountDiff
    \/ ProcessStorageDiff

Spec == Init /\ [][Next]_vars


----------------------------------------------------------------------------
(* What a trie means: the value stored under a key (section 3.1 of the     *)
(* specification), read off the input database, not off the walker         *)

\* the node behind a reference in a store, None when there is none
NodeAt(ref, nodes) ==
    IF IsInternalNode(ref) THEN ref
    ELSE IF IsHash(ref) /\ ref \in DOMAIN nodes THEN nodes[ref]
    ELSE None

\* the leaf value stored under the nibbles `key` below `ref`, or None
RECURSIVE Lookup(_, _, _)
Lookup(ref, key, nodes) ==
    LET n == NodeAt(ref, nodes)
    IN  IF n.t = "LeafNode"
        THEN (IF n.rest_of_key = key THEN n.value ELSE None)
        ELSE IF n.t = "ExtensionNode"
        THEN (IF StartsWith(key, n.key_segment)
              THEN Lookup(n.subnode, SliceFrom(key, Len(n.key_segment)), nodes)
              ELSE None)
        ELSE IF n.t = "BranchNode"
        THEN (IF key = <<>> THEN None
              ELSE Lookup(n.subnodes[key[1]], SliceFrom(key, 1), nodes))
        ELSE None

\* the hashes below `ref` that the store has no node for (the hash of the
\* empty trie has none by definition), storage tries of account leaves
\* included
RECURSIVE Dangling(_, _)
Dangling(ref, nodes) ==
    LET n == NodeAt(ref, nodes)
    IN  IF IsHash(ref) /\ ref \notin DOMAIN nodes
        THEN (IF ref = EMPTY_TRIE_ROOT THEN {} ELSE {ref})
        ELSE IF n.t = "LeafNode"
        THEN (IF "items" \in DOMAIN n.value
              THEN Dangling(n.value.items[3], nodes) ELSE {})
        ELSE IF n.t = "ExtensionNode" THEN Dangling(n.subnode, nodes)
        ELSE IF n.t = "BranchNode"
        THEN UNION {Dangling(n.subnodes[i], nodes) : i \in Nibbles}
        ELSE {}

\* the witness holds every node of both tries
WitnessComplete ==
    /\ Dangling(tries.state_root, tries.nodes) = {}
    /\ Dangling(tries.post_state_root, tries.nodes) = {}

\* a leaf value read as an account, and as a slot value
DecodeAccount0(value) == IF value = None THEN None ELSE AccountFromRlp(value)
DecodeSlot0(value) ==
    IF value = None THEN None ELSE U256(IntFromBytes(RlpDecode(value.bytes)))

\* the account stored under key k before and after, or None
PreAccount(k) == DecodeAccount0(Lookup(tries.state_root, KeyOf(k), tries.nodes))
PostAccount(k) == DecodeAccount0(Lookup(tries.post_state_root, KeyOf(k), tries.nodes))
\* the value of slot s of an account, or None
SlotOf(account, s) ==
    IF account = None THEN None
    ELSE DecodeSlot0(Lookup(account.storage_root, KeyOf(s), tries.nodes))


\* the entry of the accumulator for key k (<<>> when there is none)
AccountEntry(k) ==
    IF AddressOf(k) \in DOMAIN _main_trie THEN _main_trie[AddressOf(k)] ELSE <<>>
SlotEntry(k, s) ==
    IF /\ AddressOf(k) \in DOMAIN _storage_tries
       /\ StorageKeyOf(s) \in DOMAIN _storage_tries[AddressOf(k)]
    THEN _storage_tries[AddressOf(k)][StorageKeyOf(s)] ELSE <<>>

\* C1 (as claimed): when from_tries returns on a complete witness, every
\* account key whose value differs between the two tries, and every slot of
\* a reported account whose value differs, has an accumulator entry that is
\* exactly the pair (pre or None, post or None).
C1_Completeness ==
    (pc = "done" /\ WitnessComplete) =>
        /\ \A k \in KeyIds :
              PreAccount(k) # PostAccount(k)
                 => AccountEntry(k) = <<PreAccount(k), PostAccount(k)>>
        /\ \A k \in KeyIds, s \in KeyIds :
              (AccountEntry(k) # <<>>
               /\ SlotOf(PreAccount(k), s) # SlotOf(PostAccount(k), s))
                 => SlotEntry(k, s) = <<SlotOf(PreAccount(k), s),
                                        SlotOf(PostAccount(k), s)>>

\* C2 (as claimed): on a complete witness no accumulator entry has
\* pre == post, and a key whose value is the same in both tries has no entry.
C2_Soundness ==
    WitnessComplete =>
        /\ \A k \in KeyIds :
              AccountEntry(k) # <<>>
                 => /\ AccountEntry(k)[1] # AccountEntry(k)[2]
                    /\ PreAccount(k) # PostAccount(k)
        /\ \A k \in KeyIds, s \in KeyIds :
              SlotEntry(k, s) # <<>>
                 => /\ SlotEntry(k, s)[1] # SlotEntry(k, s)[2]
                    /\ SlotOf(PreAccount(k), s) # SlotOf(PostAccount(k), s)


\* the running call was given the same reference on both sides
EqualRefsOnEntry ==
    /\ Running
    /\ Top.op = "_compute_diff"
    /\ Top.pc = "entry"
    /\ Top.left.t = Top.right.t
    /\ Top.left = Top.right

\* C3: a call of _compute_diff with left == right returns at once: nothing
\* is looked up in the node store, no handler is invoked, nothing is pushed
\* and the accumulator is untouched; and when the two state roots are equal
\* the walk looks nothing up and the accumulator stays empty, whether or not
\* the store holds the root.
C3_FastPath ==
    /\ [][EqualRefsOnEntry =>
            /\ stack' = Tail(stack)
            /\ lookups' = lookups
            /\ missed' = missed
            /\ calls' = calls
            /\ _main_trie' = _main_trie
            /\ _storage_tries' = _storage_tries
            /\ pc' = pc]_vars
    /\ [](tries.state_root = tries.post_state_root =>
            /\ lookups = 0
            /\ calls = <<>>
            /\ _main_trie = <<>>
            /\ _storage_tries = <<>>
            /\ pc # "error")

\* from_tries has returned for two equal roots whose node the store lacks
C3_Witness ==
    /\ pc = "done"
    /\ tries.state_root = tries.post_state_root
    /\ tries.state_root # EMPTY_TRIE_ROOT
    /\ tries.state_root \notin DOMAIN tries.nodes
    /\ lookups = 0

\* C4 (as claimed): from_tries never returns a result after the walker asked
\* the node store for the hash of a node that the store does not hold.
C4_MissingNodeHalts ==
    pc = "done" => missed \subseteq {EMPTY_TRIE_ROOT}

\* C5 (as claimed): check_branch_node is only ever given a BranchNode, and on
\* tries whose branches all have an empty value it never raises.
C5_BranchValidation ==
    /\ checked \subseteq {"BranchNode"}
    /\ err # "check_branch_node"


\* C6: the node store and the two preimage maps are, in every state of a
\* from_tries run, what they were when from_tries was called.
C6_ReadOnly ==
    /\ _nodes = tries.nodes
    /\ _address_preimages = tries.address_preimages
    /\ _storage_key_preimages = tries.storage_key_preimages

\* from_tries has returned an accumulator with entries, after a walk that
\* met a Branch with an Extension a nibble-run ahead of it on the left
C6_Witness ==
    /\ pc = "done"
    /\ _main_trie # <<>>
    /\ \E n \in dispatched : n.case = "ExtensionBranch"

\* the nibbles of a packed key
Unpack(b) ==
    [i \in 1 .. 2 * Len(b) |->
        IF i % 2 = 1 THEN b[(i + 1) \div 2] \div 16 ELSE b[i \div 2] % 16]

\* the keys a walk has written to the accumulator
RecordedBy(walk) ==
    IF walk.fn = "_process_account_diff" THEN DOMAIN _main_trie
    ELSE IF walk.address \in DOMAIN _storage_tries
         THEN DOMAIN _storage_tries[walk.address]
         ELSE {}

\* C7: within one walk (the account walk, or the storage walk of one
\* address) no full key is handed to the leaf handler twice, and so every
\* invocation writes an accumulator entry of its own: none is overwritten.
C7_NoDoubleReport ==
    /\ \A i \in DOMAIN calls, j \in DOMAIN calls :
          (i < j /\ calls[i].walk = calls[j].walk) => calls[i].path # calls[j].path
    /\ pc = "done" =>
          \A i \in DOMAIN calls :
              Cardinality(RecordedBy(calls[i].walk))
                  = Cardinality({j \in DOMAIN calls : calls[j].walk = calls[i].walk})

\* one walk has reported a deletion and, later, a creation, and has returned
C7_Witness ==
    /\ pc = "done"
    /\ \E i \in DOMAIN calls, j \in DOMAIN calls :
          /\ i < j
          /\ calls[i].walk = calls[j].walk
          /\ calls[i].right = None
          /\ calls[j].left = None

\* the root of the trie a walk has on its left and on its right
LeftRootOf(walk) ==
    IF walk.fn = "_process_account_diff" THEN tries.state_root
    ELSE StorageRoot(_main_trie[walk.address][1])
RightRootOf(walk) ==
    IF walk.fn = "_process_account_diff" THEN tries.post_state_root
    ELSE StorageRoot(_main_trie[walk.address][2])

\* the key a handler was given is where the leaf sits in the trie under root
SitsAt(leaf, c, root) ==
    leaf # None =>
        /\ c.path = NibbleListToBytes(c.at \o leaf.rest_of_key)
        /\ Len(c.at \o leaf.rest_of_key) = KeyNibbles
        /\ Lookup(root, Unpack(c.path), tries.nodes) = leaf.value

\* from_tries has returned or raised
Ended == pc \in {"done", "error"}

\* C8: every full key handed to a leaf handler is the packing of the
\* accumulated path followed by the carried leaf's rest_of_key, is KeyBytes
\* long, and is the key under which that leaf's value is stored in its own
\* trie (the left trie for the left leaf, the right trie for the right leaf).
C8_PathCorrect ==
    Ended => \A i \in DOMAIN calls :
        /\ Len(calls[i].path) = KeyBytes
        /\ SitsAt(calls[i].left, calls[i], LeftRootOf(calls[i].walk))
        /\ SitsAt(calls[i].right, calls[i], RightRootOf(calls[i].walk))

\* a handler was given a leaf on both sides, below the root, the left one
\* shortened on the way down
C8_Witness ==
    \E i \in DOMAIN calls :
        /\ calls[i].left # None
        /\ calls[i].right # None
        /\ calls[i].at # <<>>
        /\ \E n \in dispatched : n.case = "LeafBranch" /\ n.walk = calls[i].walk


\* the frames of the storage handler and of the walks it is bound to
StorageFrames ==
    {i \in DOMAIN stack : stack[i].process_leaf_diff.fn = "_process_storage_diff"}

\* C9: every address with storage diffs has an account diff; the storage
\* handler of an address runs, and its walk is on the stack, only after the
\* account handler has recorded that address; and every slot in
\* storage_diffs[address] was written by an invocation bound to that address.
C9_StorageNesting ==
    /\ DOMAIN _storage_tries \subseteq DOMAIN _main_trie
    /\ \A i \in StorageFrames :
          stack[i].process_leaf_diff.address \in DOMAIN _main_trie
    /\ \A i \in DOMAIN calls :
          calls[i].walk.fn = "_process_storage_diff" =>
              \E j \in 1 .. (i - 1) :
                  /\ calls[j].walk.fn = "_process_account_diff"
                  /\ calls[j].path \in DOMAIN _address_preimages
                  /\ _address_preimages[calls[j].path] = calls[i].walk.address
    /\ \A a \in DOMAIN _storage_tries : \A key \in DOMAIN _storage_tries[a] :
          \E i \in DOMAIN calls :
              /\ calls[i].walk = StorageHandler(a)
              /\ calls[i].path \in DOMAIN _storage_key_preimages
              /\ _storage_key_preimages[calls[i].path] = key

\* from_tries has returned storage diffs for an account that exists on both
\* sides
C9_Witness ==
    /\ pc = "done"
    /\ \E a \in DOMAIN _storage_tries :
          /\ _storage_tries[a] # <<>>
          /\ a \in DOMAIN _main_trie
          /\ _main_trie[a][1] # None
          /\ _main_trie[a][2] # None

\* the invocation that stands for invocation i in the walk noted by n: in
\* the account walk a storage invocation belongs to the account invocation
\* that dispatched its walk
IsAccountCall(i) == calls[i].walk.fn = "_process_account_diff"
Dispatcher(i) ==
    IF IsAccountCall(i) THEN i
    ELSE CHOOSE j \in 1 .. i :
             /\ IsAccountCall(j)
             /\ \A k \in (j + 1) .. i : ~IsAccountCall(k)
InWalk(n, i) ==
    IF n.walk.fn = "_process_account_diff" THEN TRUE ELSE calls[i].walk = n.walk
Rep(n, i) == IF n.walk.fn = "_process_account_diff" THEN Dispatcher(i) ELSE i

\* invocation i reports a deletion under the left path of n, or a creation
\* under its right path
OnLeft(n, i) ==
    /\ InWalk(n, i)
    /\ calls[Rep(n, i)].right = None
    /\ StartsWith(Unpack(calls[Rep(n, i)].path), n.l_path)
OnRight(n, i) ==
    /\ InWalk(n, i)
    /\ calls[Rep(n, i)].left = None
    /\ StartsWith(Unpack(calls[Rep(n, i)].path), n.r_path)

LeftFirst(n) ==
    \A i \in DOMAIN calls, j \in DOMAIN calls : (OnLeft(n, i) /\ OnRight(n, j)) => i < j
RightFirst(n) ==
    \A i \in DOMAIN calls, j \in DOMAIN calls : (OnRight(n, i) /\ OnLeft(n, j)) => i < j

\* the invocations under a branch visited at n.l_path come in ascending order
\* of the nibble that follows the path
Under(n, i) ==
    /\ InWalk(n, i)
    /\ StartsWith(Unpack(calls[Rep(n, i)].path), n.l_path)
Ascending(n) ==
    \A i \in DOMAIN calls, j \in DOMAIN calls :
        (i < j /\ Under(n, i) /\ Under(n, j)) =>
            Unpack(calls[Rep(n, i)].path)[Len(n.l_path) + 1]
                <= Unpack(calls[Rep(n, j)].path)[Len(n.l_path) + 1]

TwoSidedCases == {"LeafLeaf", "LeafExtension", "ExtensionLeaf", "ExtensionExtension"}
LoopCases == {"NoneBranch", "LeafBranch", "ExtensionBranch", "BranchNone",
              "BranchLeaf", "BranchExtension", "BranchBranch"}

\* the steps of the run, numbered, and whether step a can be taken now
EnabledAt(a) ==
    CASE a = 1 -> ENABLED FromTries
      [] a = 2 -> ENABLED Return
      [] a = 3 -> ENABLED FastPath
      [] a = 4 -> ENABLED Case_None_None
      [] a = 5 -> ENABLED Case_None_Leaf
      [] a = 6 -> ENABLED Case_None_Extension
      [] a = 7 -> ENABLED Case_None_Branch
      [] a = 8 -> ENABLED Case_Leaf_None
      [] a = 9 -> ENABLED Case_Leaf_Leaf
      [] a = 10 -> ENABLED Case_Leaf_Extension
      [] a = 11 -> ENABLED Case_Leaf_Branch
      [] a = 12 -> ENABLED Case_Extension_None
      [] a = 13 -> ENABLED Case_Extension_Leaf
      [] a = 14 -> ENABLED Case_Extension_Extension
      [] a = 15 -> ENABLED Case_Extension_Branch
      [] a = 16 -> ENABLED Case_Branch_None
      [] a = 17 -> ENABLED Case_Branch_Leaf
      [] a = 18 -> ENABLED Case_Branch_Extension
      [] a = 19 -> ENABLED Case_Branch_Branch
      [] a = 20 -> ENABLED ProcessAccountDiff
      [] a = 21 -> ENABLED ProcessStorageDiff

\* the run never has a choice: the inputs fix each step, and with it the
\* sequence of handler invocations
NoChoice == Cardinality({a \in 1 .. 21 : EnabledAt(a)}) <= 1

\* C10 as stated: the run is fixed by the inputs, branch children are visited in ascending nibble order, and
\* in each of the four cases that process the two sides separately every
\* deletion of the left side is reported before any creation of the right
\* side.
C10_LeftBeforeRight ==
    /\ NoChoice
    /\ Ended =>
        \A n \in dispatched :
            /\ n.case \in LoopCases => Ascending(n)
            /\ n.case \in TwoSidedCases => LeftFirst(n)

\* C10 amended: the run is fixed by the inputs; branch children are visited in ascending nibble order; in
\* Leaf/Leaf, Leaf/Extension and Extension/Extension every deletion of the
\* left side is reported before any creation of the right side; in
\* Extension/Leaf without a prefix match the creation of the right leaf is
\* reported before every deletion under the left extension.
C10_WalkOrder ==
    /\ NoChoice
    /\ Ended =>
        \A n \in dispatched :
            /\ n.case \in LoopCases => Ascending(n)
            /\ n.case \in (TwoSidedCases \ {"ExtensionLeaf"}) => LeftFirst(n)
            /\ n.case = "ExtensionLeaf" => RightFirst(n)

\* a run has ended in which an Extension met a Leaf off its segment: the
\* creation was reported, then the deletions under the extension
C10_Witness ==
    /\ pc = "done"
    /\ \E n \in dispatched :
          /\ n.case = "ExtensionLeaf"
          /\ \E i \in DOMAIN calls, j \in DOMAIN calls :
                i < j /\ OnRight(n, i) /\ OnLeft(n, j)

\* the call _compute_diff makes next, once the step has been taken
NextCall == Head(stack')
IsNextCall(left, right, path) ==
    /\ pc' = "walk"
    /\ stack' # <<>>
    /\ NextCall.op = "_compute_diff"
    /\ NextCall.pc = "entry"
    /\ NextCall.left = left
    /\ NextCall.right = right
    /\ NextCall.path = path

\* what is left of an Extension once its first nibble has been consumed
Shortened(node) ==
    IF Len(node.key_segment) = 1 THEN node.subnode
    ELSE ExtensionNode(SliceFrom(node.key_segment, 1), node.subnode)

\* C11: with an Extension on the left and a Branch on the right, iteration i
\* of the loop recurses with path + [i] on (l.subnode, r.subnodes[i]) or on
\* (Extension(l.key_segment[1:], l.subnode), r.subnodes[i]) when i is the
\* first nibble of the segment, and on (None, r.subnodes[i]) otherwise.
C11_ExtensionBranchDispatch ==
    [][(InCase("ExtensionNode", "BranchNode") /\ Top.pc = "loop") =>
          IsNextCall(IF Top.i = Top.l_node.key_segment[1]
                     THEN Shortened(Top.l_node) ELSE None,
                     Top.r_node.subnodes[Top.i],
                     Append(Top.path, Top.i))]_vars

\* C12: with a well-formed Branch on the left and an Extension on the right
\* the walk enters the loop, and iteration i recurses with path + [i] on
\* (l.subnodes[i], r.subnode) or on (l.subnodes[i],
\* Extension(r.key_segment[1:], r.subnode)) when i is the first nibble of the
\* segment, and on (l.subnodes[i], None) otherwise.
C12_BranchExtensionDispatch ==
    [][InCase("BranchNode", "ExtensionNode") =>
          IF Top.pc = "entry"
          THEN check_branch_node(LNode) =>
                  /\ pc' = "walk"
                  /\ stack' # <<>>
                  /\ NextCall.op = "_compute_diff"
                  /\ NextCall.pc = "loop"
                  /\ NextCall.i = 0
          ELSE IsNextCall(Top.l_node.subnodes[Top.i],
                          IF Top.i = Top.r_node.key_segment[1]
                          THEN Shortened(Top.r_node) ELSE None,
                          Append(Top.path, Top.i))]_vars

====
